---- MODULE Spec2Model ----
(***************************************************************************)
(* Model of scripts/bedrock_invoke_agent.py: one run of main() (resolve    *)
(* the prompt, call the Bedrock agent, drain the event stream, persist the *)
(* two output files), the pure function append_repo_context, and the       *)
(* session identifiers of several runs of the script.                      *)
(*                                                                         *)
(* Strings are sequences of one-character strings.  The fixed Japanese     *)
(* message literals of the script are represented by one ASCII token each  *)
(* (an element such as "<text_note>"), which is never whitespace.  The     *)
(* script is taken to run under an interpreter that accepts it (the        *)
(* f-string of line 254 needs Python 3.12 or later).                       *)
(***************************************************************************)
EXTENDS Integers, Sequences, FiniteSets, TLC

VARIABLES env, fs, clock, pc, resolved, prompt, agent_id, agent_alias_id,
          resp, arrived, parts, non_chunk_notes, text, json_dump, calls,
          files, write_result, exit_code, outcome, runs

vars == <<env, fs, clock, pc, resolved, prompt, agent_id, agent_alias_id,
          resp, arrived, parts, non_chunk_notes, text, json_dump, calls,
          files, write_result, exit_code, outcome, runs>>

(***************************************************************************)
(* Bounds                                                                  *)
(***************************************************************************)
MaxEvents == 2

MaxClock == 1

NumRuns == 2

(***************************************************************************)
(* Python values                                                           *)
(***************************************************************************)
\* Python's None (an unset variable, a missing file, no diagnostic)
None == <<"<None>">>

\* truthiness of an optional string: neither None nor ""
Truthy(v) == v # None /\ v # <<>>

\* Python's  a or b  on optional strings
Or(a, b) == IF Truthy(a) THEN a ELSE b

\* str.isspace for one character
IsSpace(c) == c \in {" ", "\n", "\t", "\r"}

RECURSIVE lstrip(_)
lstrip(s) == IF s # <<>> /\ IsSpace(Head(s)) THEN lstrip(Tail(s)) ELSE s

RECURSIVE rstrip(_)
rstrip(s) ==
    IF s # <<>> /\ IsSpace(s[Len(s)]) THEN rstrip(SubSeq(s, 1, Len(s) - 1)) ELSE s

\* str.strip()
strip(s) == rstrip(lstrip(s))

\* "".join(parts)
RECURSIVE join(_)
join(ps) == IF ps = <<>> THEN <<>> ELSE Head(ps) \o join(Tail(ps))

\* "\n".join(lines)
RECURSIVE join_nl(_)
join_nl(ls) ==
    IF ls = <<>> THEN <<>>
    ELSE IF Len(ls) = 1 THEN Head(ls)
    ELSE Head(ls) \o <<"\n">> \o join_nl(Tail(ls))

\* "/" in s
HasSlash(s) == \E i \in 1..Len(s) : s[i] = "/"

\* s.split("/", 1) for a string that contains "/"
split_slash(s) ==
    LET i == CHOOSE k \in 1..Len(s) : s[k] = "/" /\ \A j \in 1..(k - 1) : s[j] # "/"
    IN  <<SubSeq(s, 1, i - 1), SubSeq(s, i + 1, Len(s))>>

\* str(int) for a non-negative integer
RECURSIVE int_str(_)
int_str(n) ==
    LET d == <<"0", "1", "2", "3", "4", "5", "6", "7", "8", "9">>
    IN  IF n < 10 THEN <<d[n + 1]>> ELSE int_str(n \div 10) \o <<d[(n % 10) + 1]>>

(***************************************************************************)
(* Environment                                                             *)
(***************************************************************************)
CtxNames == {"REPO_OWNER", "REPO_NAME", "REPO_FULL", "PR_NUMBER", "PR_URL",
             "HEAD_REF", "BASE_REF", "HEAD_SHA"}

EnvNames == CtxNames \cup {"PROMPT", "PROMPT_FILE", "AGENT_ID", "AGENT_ALIAS_ID",
                           "GITHUB_RUN_ID", "DEBUG_BEDROCK"}

NoEnv == [n \in EnvNames |-> None]

\* os.getenv(name)
getenv(e, name) == e[name]

\* os.getenv(name, default)
getenv_default(e, name, default) == IF e[name] = None THEN default ELSE e[name]

\* module constant DEBUG
DEBUG(e) ==
    getenv_default(e, "DEBUG_BEDROCK", <<"0">>)
        \notin {<<>>, <<"0">>, <<"f", "a", "l", "s", "e">>,
                <<"F", "a", "l", "s", "e">>, <<"O", "F", "F">>}

(***************************************************************************)
(* append_repo_context                                                     *)
(***************************************************************************)
\* first line of the metadata block, "\n### <heading>"
RepoHeader == <<"\n", "<### repo info>">>

\* the owner and the name after the derivation from REPO_FULL
derived_owner_name(e) ==
    LET owner == getenv(e, "REPO_OWNER")
        name == getenv(e, "REPO_NAME")
        full == getenv(e, "REPO_FULL")
    IN  IF (~Truthy(owner) \/ ~Truthy(name)) /\ Truthy(full) /\ HasSlash(full)
        THEN <<Or(owner, split_slash(full)[1]), Or(name, split_slash(full)[2])>>
        ELSE <<owner, name>>

\* REPO_FULL itself counts as context
has_context_full(e) ==
    LET on == derived_owner_name(e)
    IN  \/ Truthy(on[1]) \/ Truthy(on[2]) \/ Truthy(getenv(e, "REPO_FULL"))
        \/ Truthy(getenv(e, "PR_NUMBER")) \/ Truthy(getenv(e, "HEAD_REF"))
        \/ Truthy(getenv(e, "BASE_REF")) \/ Truthy(getenv(e, "HEAD_SHA"))
        \/ Truthy(getenv(e, "PR_URL"))

\* the condition of line 83 under which the block is built
has_context(e) ==
    LET on == derived_owner_name(e)
    IN  \/ Truthy(on[1]) \/ Truthy(on[2])
        \/ Truthy(getenv(e, "PR_NUMBER")) \/ Truthy(getenv(e, "HEAD_REF"))
        \/ Truthy(getenv(e, "BASE_REF")) \/ Truthy(getenv(e, "HEAD_SHA"))
        \/ Truthy(getenv(e, "PR_URL"))

\* the list  lines  of the block
context_lines(e) ==
    LET on == derived_owner_name(e)
        owner == on[1]
        name == on[2]
        pr_number == getenv(e, "PR_NUMBER")
        pr_url == getenv(e, "PR_URL")
        head_ref == getenv(e, "HEAD_REF")
        base_ref == getenv(e, "BASE_REF")
        head_sha == getenv(e, "HEAD_SHA")
        unknown == <<"(", "u", "n", "k", "n", "o", "w", "n", ")">>
    IN  IF ~has_context(e) THEN <<>>
        ELSE <<RepoHeader>>
             \o (IF Truthy(owner) \/ Truthy(name)
                 THEN <<<<"<- org/repo: >">> \o Or(owner, unknown) \o <<"/">>
                            \o Or(name, unknown)>>
                 ELSE <<>>)
             \o (IF Truthy(pr_number) THEN <<<<"<- PR number: >">> \o pr_number>> ELSE <<>>)
             \o (IF Truthy(pr_url) THEN <<<<"<- PR URL: >">> \o pr_url>> ELSE <<>>)
             \o (IF Truthy(head_ref) /\ Truthy(base_ref)
                 THEN <<<<"<- branch: >">> \o head_ref \o <<" ", "<arrow>", " ">> \o base_ref>>
                 ELSE IF Truthy(head_ref) THEN <<<<"<- branch: >">> \o head_ref>>
                 ELSE <<>>)
             \o (IF Truthy(head_sha) THEN <<<<"<- HEAD SHA: >">> \o head_sha>> ELSE <<>>)

append_repo_context(prompt_text, e) ==
    LET lines == context_lines(e)
    IN  prompt_text \o (IF lines # <<>> THEN <<"\n">> \o join_nl(lines) ELSE <<>>)

(***************************************************************************)
(* Chunk payload decoding                                                  *)
(***************************************************************************)
\* the bytes that occur in the modelled payloads, by name
ByteVal == [b \in {"x20", "x61", "xC3", "xA9"} |->
              CASE b = "x20" -> 32 [] b = "x61" -> 97 [] b = "xC3" -> 195 [] b = "xA9" -> 169]

\* the characters of the code points the modelled payloads decode to
Chr == [n \in {32, 97, 233} |->
          CASE n = 32 -> " " [] n = 97 -> "a" [] n = 233 -> "U+00E9"]

\* bytes.decode("utf-8", errors="ignore") on one- and two-byte sequences:
\* a lead byte without its continuation byte, and a byte that cannot start a
\* character, are skipped
RECURSIVE utf8_decode_ignore(_)
utf8_decode_ignore(b) ==
    IF b = <<>> THEN <<>>
    ELSE LET h == Head(b) IN
         IF h < 128 THEN <<Chr[h]>> \o utf8_decode_ignore(Tail(b))
         ELSE IF h >= 194 /\ h <= 223 /\ Len(b) >= 2 /\ b[2] >= 128 /\ b[2] <= 191
              THEN <<Chr[(h - 192) * 64 + (b[2] - 128)]>>
                       \o utf8_decode_ignore(SubSeq(b, 3, Len(b)))
              ELSE utf8_decode_ignore(Tail(b))

B64Chars == <<"A", "B", "C", "D", "E", "F", "G", "H", "I", "J", "K", "L", "M",
              "N", "O", "P", "Q", "R", "S", "T", "U", "V", "W", "X", "Y", "Z",
              "a", "b", "c", "d", "e", "f", "g", "h", "i", "j", "k", "l", "m",
              "n", "o", "p", "q", "r", "s", "t", "u", "v", "w", "x", "y", "z",
              "0", "1", "2", "3", "4", "5", "6", "7", "8", "9", "+", "/">>

B64Val(c) == (CHOOSE i \in 1..64 : B64Chars[i] = c) - 1

\* binascii.Error
B64Error == <<-1>>

\* base64.b64decode(s) (not strict): characters outside the alphabet are
\* skipped, a completed pad sequence ends the input, and leftover sextets
\* raise binascii.Error
RECURSIVE b64_scan(_, _, _, _, _, _)
b64_scan(s, i, quad_pos, leftchar, pads, out) ==
    IF i > Len(s) THEN (IF quad_pos # 0 THEN B64Error ELSE out)
    ELSE IF s[i] = "=" THEN
        IF quad_pos >= 2 /\ quad_pos + pads + 1 >= 4 THEN out
        ELSE b64_scan(s, i + 1, quad_pos, leftchar,
                      IF quad_pos >= 2 THEN pads + 1 ELSE pads, out)
    ELSE IF ~(\E k \in 1..64 : B64Chars[k] = s[i])
        THEN b64_scan(s, i + 1, quad_pos, leftchar, pads, out)
    ELSE LET v == B64Val(s[i]) IN
        CASE quad_pos = 0 -> b64_scan(s, i + 1, 1, v, 0, out)
          [] quad_pos = 1 ->
               b64_scan(s, i + 1, 2, v % 16, 0,
                        Append(out, (leftchar * 4 + (v \div 16)) % 256))
          [] quad_pos = 2 ->
               b64_scan(s, i + 1, 3, v % 4, 0,
                        Append(out, (leftchar * 16 + (v \div 4)) % 256))
          [] quad_pos = 3 ->
               b64_scan(s, i + 1, 0, 0, 0, Append(out, (leftchar * 64 + v) % 256))

b64decode(s) == b64_scan(s, 1, 0, 0, 0, <<>>)

\* the events a stream delivers: chunks carrying bytes, chunks carrying a
\* str, and events without a "chunk" key
BytesPayloads == {<<"x61">>, <<"x20">>, <<"xC3", "xA9">>, <<"xC3">>}

StrPayloads == {<<"Y", "Q", "=", "=">>, <<"Y", "Q">>}

Events ==
    [type : {"chunk"}, kind : {"bytes"}, val : BytesPayloads]
        \cup [type : {"chunk"}, kind : {"str"}, val : StrPayloads]
        \cup [type : {"trace"}, kind : {"none"}, val : {<<>>}]

\* the string appended to  parts  for a chunk event (lines 187-195)
decode_chunk(ev) ==
    IF ev.kind = "bytes"
    THEN utf8_decode_ignore([i \in 1..Len(ev.val) |-> ByteVal[ev.val[i]]])
    ELSE LET r == b64decode(ev.val) IN
         IF r = B64Error THEN ev.val ELSE utf8_decode_ignore(r)

\* the decoded chunk is put in front of the parts received before it
parts_after_prepend(ps, ev) ==
    IF ev.type = "chunk" THEN <<decode_chunk(ev)>> \o ps ELSE ps

\* parts after one event of the stream (lines 186-196)
parts_after(ps, ev) == IF ev.type = "chunk" THEN Append(ps, decode_chunk(ev)) ELSE ps

\* non_chunk_notes after one event of the stream (lines 197-204)
notes_after(ns, ev) ==
    IF ev.type = "chunk" THEN ns ELSE Append(ns, <<"[non-chunk event] keys=", ev.type>>)

(***************************************************************************)
(* Prompt resolution                                                       *)
(***************************************************************************)
\* the path PROMPT_FILE names in the modelled environments
PromptPath == <<"p", "f">>

\* os.path.join("scripts", "prompts", "pr_improve_agent_ja.md")
default_file == <<"scripts/prompts/pr_improve_agent_ja.md">>

Paths == {PromptPath, default_file}

\* os.path.isfile(path)
isfile(f, path) == path \in DOMAIN f /\ f[path] # None

\* PROMPT is read with os.getenv, without the check of getenv_required
resolve_prompt_unchecked(e, f) ==
    LET pfile == getenv(e, "PROMPT_FILE") IN
    IF Truthy(pfile) /\ isfile(f, pfile) THEN f[pfile]
    ELSE IF isfile(f, default_file) THEN f[default_file]
    ELSE getenv(e, "PROMPT")

\* the value resolve_prompt returns, or None where getenv_required("PROMPT")
\* exits the process with code 2
resolve_prompt(e, f) ==
    LET pfile == getenv(e, "PROMPT_FILE") IN
    IF Truthy(pfile) /\ isfile(f, pfile) THEN f[pfile]
    ELSE IF isfile(f, default_file) THEN f[default_file]
    ELSE IF Truthy(getenv(e, "PROMPT")) THEN getenv(e, "PROMPT")
    ELSE None

(***************************************************************************)
(* Messages and diagnostics                                                *)
(***************************************************************************)
\* str(list of keys)
RECURSIVE keys_repr_items(_)
keys_repr_items(ks) ==
    IF ks = <<>> THEN <<>>
    ELSE <<"'", Head(ks), "'">>
             \o (IF Len(ks) > 1 THEN <<",", " ">> ELSE <<>>) \o keys_repr_items(Tail(ks))

keys_repr(ks) == <<"[">> \o keys_repr_items(ks) \o <<"]">>

\* lines 176-180
json_note(ks) ==
    <<"{\"note\": \"Agent returned no stream\", \"response_keys\": ">>
        \o keys_repr(ks) \o <<"}">>

text_note(ks) == <<"<the agent response had no stream.>", " response_keys=">> \o keys_repr(ks)

\* a response without a stream is returned as an empty result
no_stream_silent(ks) == <<None, <<>>>>

\* line 181: return json_note, text_note
no_stream_result(ks) == <<json_note(ks), text_note(ks)>>

\* the explanatory message of line 214
stream_error_message(ese) == <<"<error while processing the agent stream: >", ese,
                               "<. retry later.>">>

\* the partial text is left out of the message
err_msg_drops_partial(ps, ese) == stream_error_message(ese)

\* lines 211-215
err_msg(ps, ese) ==
    LET text_partial == strip(join(ps))
    IN  (IF text_partial # <<>> THEN text_partial \o <<"\n", "\n">> ELSE <<>>)
            \o stream_error_message(ese)

\* lines 216-220
json_err(ese, ns) ==
    <<"{\"error\": \"EventStreamError\", \"message\": ", ese,
      ", \"non_chunk_events\": ">> \o join(ns) \o <<"}">>

\* lines 265-266
failed_text(e) == <<"<the agent call failed.>", e, "\n", "<see the log for details.>">>

failed_json(e) == <<"{\"error\": ", e, ", \"trace\": ", "<traceback>", "}">>

\* lines 268-269
missing_text == <<"<AGENT_ID/AGENT_ALIAS_ID not set, agent call not made.>">>

missing_json == <<"{\"error\": \"missing agent parameters\"}">>

\* line 274
default_json == <<"{\"note\": \"Agent stream not serialized; see text file.\"}">>

\* line 284
empty_text == <<"<the Bedrock output was empty; see the log and bedrock_agent_output.json.>">>

\* the content handed to the write of the JSON file (lines 273-276)
json_to_write(j) == IF j = None THEN default_json ELSE j

\* only an empty text is replaced, a whitespace-only one is written
text_to_write_unstripped(t) == IF ~Truthy(t) THEN empty_text ELSE t

\* the content handed to the write of the text file (lines 283-286)
text_to_write(t) == IF ~Truthy(t) \/ strip(t) = <<>> THEN empty_text ELSE t

\* the messages of the exceptions the agent call and the stream raise
ErrorMessages == {"<ClientError>"}

(***************************************************************************)
(* The agent call                                                          *)
(***************************************************************************)
\* line 145
session_id(e, now) ==
    getenv_default(e, "GITHUB_RUN_ID", <<"m", "a", "n", "u", "a", "l">>)
        \o <<"-">> \o int_str(now)

\* the agent is called whatever the parameters are
use_agent_always(id, alias) == TRUE

\* the condition of line 259
use_agent(id, alias) == Truthy(id) /\ Truthy(alias)

\* the key lists of the responses of client.invoke_agent
Responses == {<<"ResponseMetadata", "contentType", "sessionId">>,
              <<"ResponseMetadata", "contentType", "sessionId", "completion">>,
              <<"ResponseMetadata", "contentType", "sessionId", "responseStream">>}

\* line 166-167: a stream is found under one of the two keys
has_stream(r) == \E i \in 1..Len(r) : r[i] \in {"responseStream", "completion"}

sts_call == [service |-> "sts", sessionId |-> None, inputText |-> None]

agent_call(e, now, p) ==
    [service |-> "bedrock-agent-runtime", sessionId |-> session_id(e, now), inputText |-> p]

(***************************************************************************)
(* Exceptions and file writes                                              *)
(***************************************************************************)
\* classes of the exceptions client.invoke_agent and the stream iteration raise
\* besides EventStreamError; str(e) is modelled by the class name
Exceptions == {"ClientError", "ValueError"}

\* the classes derived from Exception
ExceptionSubclasses == {"ValueError", "ClientError", "BotoCoreError",
                        "UnknownServiceError", "EventStreamError"}

\* the except clause without the trailing Exception
caught_by_main_listed(cls) ==
    cls \in {"UnknownServiceError", "ClientError", "BotoCoreError"}

\* line 262: except (UnknownServiceError, ClientError, BotoCoreError, Exception)
caught_by_main(cls) ==
    \/ cls \in {"UnknownServiceError", "ClientError", "BotoCoreError"}
    \/ cls \in ExceptionSubclasses

\* results of  open(path, "w")  followed by  f.write(content)
WriteResults == {"ok", "open_failed", "write_failed"}

\* the file after the write: a failed open leaves it as it was, a failed write
\* leaves the file open() has truncated
file_after(old, content, result) ==
    CASE result = "ok" -> content
      [] result = "open_failed" -> old
      [] result = "write_failed" -> <<>>

\* both writes in one try block: a failed JSON write skips the text write
text_write_after_json(json_result) == json_result = "ok"

\* lines 279-282: the text write is attempted whatever the JSON write did
text_write_attempted(json_result) == TRUE

(***************************************************************************)
(* State                                                                   *)
(***************************************************************************)
\* the state of main()'s locals and of the world before main() runs
Blank ==
    /\ resolved = None
    /\ prompt = None
    /\ agent_id = None
    /\ agent_alias_id = None
    /\ resp = None
    /\ arrived = <<>>
    /\ parts = <<>>
    /\ non_chunk_notes = <<>>
    /\ text = None
    /\ json_dump = None
    /\ calls = <<>>
    /\ files = [json |-> None, text |-> None]
    /\ write_result = [json |-> "none", text |-> "none"]
    /\ exit_code = -1
    /\ outcome = "none"

\* the environments of the runs of main()
MainEnvs ==
    {[NoEnv EXCEPT !["PROMPT"] = p, !["PROMPT_FILE"] = pf, !["AGENT_ID"] = a,
                   !["AGENT_ALIAS_ID"] = al, !["GITHUB_RUN_ID"] = g,
                   !["DEBUG_BEDROCK"] = d, !["PR_NUMBER"] = n] :
        p \in {None, <<>>, <<"p">>}, pf \in {None, PromptPath},
        a \in {None, <<"A">>}, al \in {None, <<"L">>},
        g \in {None, <<"7">>}, d \in {None, <<"1">>}, n \in {None, <<"5">>}}

\* the prompt files on disk: the file PROMPT_FILE names and the default file
MainFiles ==
    {[q \in Paths |-> IF q = PromptPath THEN x ELSE y] :
        x \in {None, <<"F">>}, y \in {None, <<"D">>}}

Init ==
    /\ env \in MainEnvs
    /\ fs \in {f \in MainFiles : env["PROMPT_FILE"] = None => f[PromptPath] = None}
    /\ clock \in 0..MaxClock
    /\ pc = "start"
    /\ runs = <<>>
    /\ Blank

(***************************************************************************)
(* main()                                                                  *)
(***************************************************************************)
\* lines 233-243: resolve_prompt (exit 2 when nothing resolves), then
\* append_repo_context and the reads of AGENT_ID and AGENT_ALIAS_ID
Configure ==
    /\ pc = "start"
    /\ LET r == resolve_prompt(env, fs) IN
       IF r = None
       THEN /\ pc' = "exit"
            /\ exit_code' = 2
            /\ UNCHANGED <<resolved, prompt, agent_id, agent_alias_id>>
       ELSE /\ resolved' = r
            /\ prompt' = append_repo_context(r, env)
            /\ agent_id' = getenv(env, "AGENT_ID")
            /\ agent_alias_id' = getenv(env, "AGENT_ALIAS_ID")
            /\ pc' = IF DEBUG(env) THEN "debug" ELSE "dispatch"
            /\ UNCHANGED exit_code
    /\ UNCHANGED <<env, fs, clock, resp, arrived, parts, non_chunk_notes, text,
                   json_dump, calls, files, write_result, outcome, runs>>

\* lines 245-256: with DEBUG, the caller identity is asked from STS; a failure
\* is logged and ignored
DebugIdentity ==
    /\ pc = "debug"
    /\ calls' = Append(calls, sts_call)
    /\ pc' = "dispatch"
    /\ UNCHANGED <<env, fs, clock, resolved, prompt, agent_id, agent_alias_id, resp,
                   arrived, parts, non_chunk_notes, text, json_dump, files,
                   write_result, exit_code, outcome, runs>>

\* lines 267-269: an agent parameter is missing
MissingAgent ==
    /\ pc = "dispatch"
    /\ ~use_agent(agent_id, agent_alias_id)
    /\ text' = missing_text
    /\ json_dump' = missing_json
    /\ outcome' = "missing"
    /\ pc' = "persist"
    /\ UNCHANGED <<env, fs, clock, resolved, prompt, agent_id, agent_alias_id, resp,
                   arrived, parts, non_chunk_notes, calls, files, write_result,
                   exit_code, runs>>

\* what main() does with an exception of class cls raised inside invoke_agent
\* (lines 262-266); an exception the clause does not catch ends the process
Raised(cls) ==
    IF caught_by_main(cls)
    THEN /\ text' = failed_text(cls)
         /\ json_dump' = failed_json(cls)
         /\ outcome' = "raised"
         /\ pc' = "persist"
         /\ UNCHANGED exit_code
    ELSE /\ pc' = "exit"
         /\ exit_code' = 1
         /\ outcome' = "uncaught"
         /\ UNCHANGED <<text, json_dump>>

\* lines 143-153, 262-266: client.invoke_agent raises
InvokeAgentRaises ==
    /\ pc = "dispatch"
    /\ use_agent(agent_id, agent_alias_id)
    /\ calls' = Append(calls, agent_call(env, clock, prompt))
    /\ \E cls \in Exceptions : Raised(cls)
    /\ UNCHANGED <<env, fs, clock, resolved, prompt, agent_id, agent_alias_id, resp,
                   arrived, parts, non_chunk_notes, files, write_result, runs>>

\* lines 143-181: the response carries no stream
InvokeAgentNoStream ==
    /\ pc = "dispatch"
    /\ use_agent(agent_id, agent_alias_id)
    /\ calls' = Append(calls, agent_call(env, clock, prompt))
    /\ \E r \in Responses :
        /\ ~has_stream(r)
        /\ resp' = r
        /\ json_dump' = no_stream_result(r)[1]
        /\ text' = no_stream_result(r)[2]
    /\ outcome' = "no_stream"
    /\ pc' = "persist"
    /\ UNCHANGED <<env, fs, clock, resolved, prompt, agent_id, agent_alias_id,
                   arrived, parts, non_chunk_notes, files, write_result, exit_code, runs>>

\* lines 143-183: the response carries a stream
InvokeAgentStream ==
    /\ pc = "dispatch"
    /\ use_agent(agent_id, agent_alias_id)
    /\ calls' = Append(calls, agent_call(env, clock, prompt))
    /\ \E r \in Responses :
        /\ has_stream(r)
        /\ resp' = r
    /\ parts' = <<>>
    /\ non_chunk_notes' = <<>>
    /\ pc' = "stream"
    /\ UNCHANGED <<env, fs, clock, resolved, prompt, agent_id, agent_alias_id,
                   arrived, text, json_dump, files, write_result, exit_code, outcome, runs>>

\* lines 185-206: one event of the stream
StreamEvent ==
    /\ pc = "stream"
    /\ Len(arrived) < MaxEvents
    /\ \E ev \in Events :
        /\ arrived' = Append(arrived, ev)
        /\ parts' = parts_after(parts, ev)
        /\ non_chunk_notes' = notes_after(non_chunk_notes, ev)
    /\ UNCHANGED <<env, fs, clock, pc, resolved, prompt, agent_id, agent_alias_id,
                   resp, text, json_dump, calls, files, write_result, exit_code,
                   outcome, runs>>

\* lines 222-226: the stream ends
StreamEnd ==
    /\ pc = "stream"
    /\ text' = join(parts)
    /\ json_dump' = None
    /\ outcome' = "ok"
    /\ pc' = "persist"
    /\ UNCHANGED <<env, fs, clock, resolved, prompt, agent_id, agent_alias_id, resp,
                   arrived, parts, non_chunk_notes, calls, files, write_result,
                   exit_code, runs>>

\* lines 207-221: the iteration raises EventStreamError
StreamEventStreamError ==
    /\ pc = "stream"
    /\ \E ese \in ErrorMessages :
        /\ text' = err_msg(parts, ese)
        /\ json_dump' = json_err(ese, non_chunk_notes)
    /\ outcome' = "stream_error"
    /\ pc' = "persist"
    /\ UNCHANGED <<env, fs, clock, resolved, prompt, agent_id, agent_alias_id, resp,
                   arrived, parts, non_chunk_notes, calls, files, write_result,
                   exit_code, runs>>

\* lines 185, 262-266: the iteration raises another exception, which leaves
\* invoke_agent
StreamRaises ==
    /\ pc = "stream"
    /\ \E cls \in Exceptions : Raised(cls)
    /\ UNCHANGED <<env, fs, clock, resolved, prompt, agent_id, agent_alias_id, resp,
                   arrived, parts, non_chunk_notes, calls, files, write_result, runs>>

\* lines 271-292: both writes, each in its own try, then return 0
PersistOutputs ==
    /\ pc = "persist"
    /\ \E jr \in WriteResults, tr \in WriteResults :
        LET text_try == text_write_attempted(jr) IN
        /\ json_dump' = json_to_write(json_dump)
        /\ text' = IF text_try THEN text_to_write(text) ELSE text
        /\ files' = [json |-> file_after(files.json, json_to_write(json_dump), jr),
                     text |-> IF text_try
                              THEN file_after(files.text, text_to_write(text), tr)
                              ELSE files.text]
        /\ write_result' = [json |-> jr, text |-> IF text_try THEN tr ELSE "none"]
        /\ exit_code' = 0
    /\ pc' = "exit"
    /\ UNCHANGED <<env, fs, clock, resolved, prompt, agent_id, agent_alias_id, resp,
                   arrived, parts, non_chunk_notes, calls, outcome, runs>>

Next ==
    \/ Configure
    \/ DebugIdentity
    \/ MissingAgent
    \/ InvokeAgentRaises
    \/ InvokeAgentNoStream
    \/ InvokeAgentStream
    \/ StreamEvent
    \/ StreamEnd
    \/ StreamEventStreamError
    \/ StreamRaises
    \/ PersistOutputs

Spec == Init /\ [][Next]_vars

(***************************************************************************)
(* append_repo_context on its own                                          *)
(***************************************************************************)
\* the environments append_repo_context is applied to: every context variable
\* unset, empty or set, and REPO_FULL with and without a "/"
CtxEnvs ==
    {[n \in EnvNames |->
        IF n = "REPO_FULL" THEN full
        ELSE IF n \in CtxNames THEN v[n] ELSE None] :
        v \in [CtxNames \ {"REPO_FULL"} -> {None, <<>>, <<"v">>}],
        full \in {None, <<>>, <<"x">>, <<"o", "/", "n">>, <<"/">>, <<"o", "/">>,
                  <<"/", "n">>}}

InitCtx ==
    /\ env \in CtxEnvs
    /\ fs = [q \in Paths |-> None]
    /\ clock = 0
    /\ pc = "ctx"
    /\ runs = <<>>
    /\ Blank

\* the prompt texts append_repo_context is applied to
CtxPrompts == {<<>>, <<"p">>, <<"p", "\n">>}

\* lines 61-99
AppendRepoContext ==
    /\ pc = "ctx"
    /\ \E p \in CtxPrompts :
        /\ resolved' = p
        /\ prompt' = append_repo_context(p, env)
    /\ pc' = "ctx_done"
    /\ UNCHANGED <<env, fs, clock, agent_id, agent_alias_id, resp, arrived, parts,
                   non_chunk_notes, text, json_dump, calls, files, write_result,
                   exit_code, outcome, runs>>

NextCtx == AppendRepoContext

SpecCtx == InitCtx /\ [][NextCtx]_vars

(***************************************************************************)
(* Session identifiers of several runs                                     *)
(***************************************************************************)
\* the values of GITHUB_RUN_ID of the runs
RunIds == {None, <<"7">>, <<"8">>}

\* each run has its own environment and has not yet built its session id
InitRuns ==
    /\ env = NoEnv
    /\ fs = [q \in Paths |-> None]
    /\ clock = 0
    /\ pc = "runs"
    /\ runs \in [1..NumRuns -> [github_run_id : RunIds, session_id : {None}]]
    /\ Blank

\* a second of wall-clock time passes
Tick ==
    /\ pc = "runs"
    /\ clock < MaxClock
    /\ clock' = clock + 1
    /\ UNCHANGED <<env, fs, pc, resolved, prompt, agent_id, agent_alias_id, resp,
                   arrived, parts, non_chunk_notes, text, json_dump, calls, files,
                   write_result, exit_code, outcome, runs>>

\* line 145 in run r: the session id is built from the run's GITHUB_RUN_ID and
\* int(time.time())
RunBuildsSessionId(r) ==
    /\ pc = "runs"
    /\ runs[r].session_id = None
    /\ runs' = [runs EXCEPT ![r].session_id =
                   session_id([NoEnv EXCEPT !["GITHUB_RUN_ID"] = runs[r].github_run_id],
                              clock)]
    /\ UNCHANGED <<env, fs, clock, pc, resolved, prompt, agent_id, agent_alias_id,
                   resp, arrived, parts, non_chunk_notes, text, json_dump, calls,
                   files, write_result, exit_code, outcome>>

NextRuns ==
    \/ Tick
    \/ \E r \in 1..NumRuns : RunBuildsSessionId(r)

SpecRuns == InitRuns /\ [][NextRuns]_vars

(***************************************************************************)
(* Properties                                                              *)
(***************************************************************************)
\* the decoded payloads of the chunk events of a stream, joined in the order
\* of arrival
RECURSIVE ChunkTextInOrder(_)
ChunkTextInOrder(evs) ==
    IF evs = <<>> THEN <<>>
    ELSE (IF Head(evs).type = "chunk" THEN decode_chunk(Head(evs)) ELSE <<>>)
             \o ChunkTextInOrder(Tail(evs))

HasPrefix(s, p) == Len(p) <= Len(s) /\ SubSeq(s, 1, Len(p)) = p

HasSuffix(s, p) == Len(p) <= Len(s) /\ SubSeq(s, Len(s) - Len(p) + 1, Len(s)) = p

HasNonSpace(s) == s # None /\ \E i \in 1..Len(s) : ~IsSpace(s[i])

ValidationPassed == resolved # None

AgentCalls == {i \in 1..Len(calls) : calls[i].service = "bedrock-agent-runtime"}

ModelCalls == {i \in 1..Len(calls) : calls[i].service = "bedrock-runtime"}

\* C1: when the stream ends without error, the text invoke_agent returns is
\* the decoded payloads of the chunk events joined in arrival order, with no
\* contribution of the other events, and no diagnostic is returned.
C1_TextIsChunksInArrivalOrder ==
    (pc = "persist" /\ outcome = "ok")
        => /\ text = ChunkTextInOrder(arrived)
           /\ json_dump = None

\* C1 witness: a stream of two chunks with different non-empty texts ended
\* without error, for a non-empty prompt and both agent parameters set.
C1_Witness ==
    /\ pc = "persist" /\ outcome = "ok"
    /\ prompt # <<>> /\ Truthy(env["AGENT_ID"]) /\ Truthy(env["AGENT_ALIAS_ID"])
    /\ Len(arrived) = 2
    /\ arrived[1].type = "chunk" /\ arrived[2].type = "chunk"
    /\ decode_chunk(arrived[1]) # decode_chunk(arrived[2])
    /\ decode_chunk(arrived[1]) # <<>> /\ decode_chunk(arrived[2]) # <<>>
    /\ text = decode_chunk(arrived[1]) \o decode_chunk(arrived[2])

\* C2 as stated: after an EventStreamError the returned text starts with the
\* join of the chunks received and ends with the explanatory message.
C2_PrefixIsJoinOfChunks ==
    (pc = "persist" /\ outcome = "stream_error")
        => /\ HasPrefix(text, ChunkTextInOrder(arrived))
           /\ \E ese \in ErrorMessages : HasSuffix(text, stream_error_message(ese))

\* C2 amended: after an EventStreamError the returned text is the join of the
\* chunks received with its leading and trailing whitespace stripped, then a
\* blank line, then the explanatory message; it is the message alone when the
\* stripped join is empty.
C2_PrefixIsStrippedJoin ==
    (pc = "persist" /\ outcome = "stream_error")
        => \E ese \in ErrorMessages :
             LET j == ChunkTextInOrder(arrived)
                 first == CHOOSE a \in 1..(Len(j) + 1) :
                              /\ \A i \in 1..(a - 1) : IsSpace(j[i])
                              /\ a <= Len(j) => ~IsSpace(j[a])
                 last == CHOOSE b \in 0..Len(j) :
                              /\ \A i \in (b + 1)..Len(j) : IsSpace(j[i])
                              /\ b >= 1 => ~IsSpace(j[b])
                 kept == SubSeq(j, first, last)
             IN  text = (IF kept # <<>> THEN kept \o <<"\n", "\n">> ELSE <<>>)
                            \o stream_error_message(ese)

\* C2 witness: the error came after two chunks whose join has whitespace at an
\* end and text in the middle.
C2_Witness ==
    /\ pc = "persist" /\ outcome = "stream_error"
    /\ Len(arrived) = 2
    /\ HasNonSpace(ChunkTextInOrder(arrived))
    /\ IsSpace(ChunkTextInOrder(arrived)[1])
    /\ ~HasPrefix(text, ChunkTextInOrder(arrived))

\* C3: after a run whose agent response has no stream, the text handed to the
\* text file is the non-empty placeholder and the content handed to the JSON
\* file is the structured note, and each file whose write succeeded holds it.
C3_NoStreamPlaceholders ==
    (pc = "exit" /\ outcome = "no_stream")
        => /\ text = text_note(resp) /\ text # <<>>
           /\ json_dump = json_note(resp) /\ json_dump # <<>>
           /\ write_result.text = "ok" => files.text = text_note(resp)
           /\ write_result.json = "ok" => files.json = json_note(resp)

\* C3 witness: a run without a stream wrote both files.
C3_Witness ==
    /\ pc = "exit" /\ outcome = "no_stream"
    /\ ~has_stream(resp)
    /\ write_result = [json |-> "ok", text |-> "ok"]
    /\ files.text = text_note(resp) /\ files.json = json_note(resp)

\* C4 as stated: with neither AGENT_ID nor AGENT_ALIAS_ID set, a finished run
\* has called the model endpoint and has not called the agent.
C4_ModelPathUsed ==
    (pc = "exit" /\ ValidationPassed
        /\ env["AGENT_ID"] = None /\ env["AGENT_ALIAS_ID"] = None)
        => ModelCalls # {} /\ AgentCalls = {}

\* C4 amended: with neither AGENT_ID nor AGENT_ALIAS_ID set, the run calls
\* neither the agent nor a model, and its result is the fixed message and
\* diagnostic that say the agent parameters are missing.
C4_NoCallAtAll ==
    (env["AGENT_ID"] = None /\ env["AGENT_ALIAS_ID"] = None)
        => /\ AgentCalls = {} /\ ModelCalls = {}
           /\ pc = "persist" => text = missing_text /\ json_dump = missing_json
           /\ (pc = "exit" /\ ValidationPassed)
                 => text = missing_text /\ json_dump = missing_json

\* C4 witness: a run with neither parameter set finished and wrote the message.
C4_Witness ==
    /\ pc = "exit" /\ ValidationPassed
    /\ env["AGENT_ID"] = None /\ env["AGENT_ALIAS_ID"] = None
    /\ outcome = "missing"
    /\ files.text = missing_text

NoPromptResolves ==
    /\ env["PROMPT"] \in {None, <<>>}
    /\ env["PROMPT_FILE"] = None \/ fs[PromptPath] = None
    /\ fs[default_file] = None

\* C5: when PROMPT is unset or empty and no prompt file resolves, the run makes
\* no network call, writes no file, and can only end with exit code 2.
C5_ExitTwoBeforeAnyCall ==
    NoPromptResolves
        => /\ calls = <<>>
           /\ files = [json |-> None, text |-> None]
           /\ write_result = [json |-> "none", text |-> "none"]
           /\ pc \in {"start", "exit"}
           /\ pc = "exit" => exit_code = 2

\* C5 witness: such a run, with debugging on and both agent parameters set,
\* has exited with code 2.
C5_Witness ==
    /\ NoPromptResolves
    /\ DEBUG(env) /\ Truthy(env["AGENT_ID"]) /\ Truthy(env["AGENT_ALIAS_ID"])
    /\ pc = "exit" /\ exit_code = 2

\* C6: once the prompt is resolved, a finished run has attempted both writes
\* and exits with code 0, and an exception raised by the agent call has become
\* a message and a diagnostic.
C6_AlwaysExitZero ==
    /\ (pc = "exit" /\ ValidationPassed)
          => /\ exit_code = 0
             /\ write_result.json # "none" /\ write_result.text # "none"
    /\ ValidationPassed => outcome # "uncaught"
    /\ (pc = "persist" /\ outcome = "raised")
          => \E cls \in Exceptions : text = failed_text(cls) /\ json_dump = failed_json(cls)

\* C6 witness: the stream raised an exception that is not a botocore one, and
\* the run exited with code 0 after both writes.
C6_Witness ==
    /\ pc = "exit" /\ outcome = "raised" /\ exit_code = 0
    /\ text = failed_text("ValueError")
    /\ arrived # <<>>
    /\ write_result.json # "none" /\ write_result.text # "none"

\* C7: in a finished run each write was attempted whatever the other did, a
\* write that did not fail left its content in its file, and the exit code is 0.
C7_WritesIndependent ==
    (pc = "exit" /\ ValidationPassed)
        => /\ write_result.json \in WriteResults /\ write_result.text \in WriteResults
           /\ write_result.text = "ok" => files.text = text
           /\ write_result.json = "ok" => files.json = json_dump
           /\ exit_code = 0

\* C7 witness: the JSON write failed and the text file was written.
C7_Witness ==
    /\ pc = "exit" /\ exit_code = 0
    /\ write_result.json = "open_failed" /\ files.json = None
    /\ write_result.text = "ok" /\ files.text = text /\ text # None

\* C8: the step that persists the outputs hands to the text file the result
\* text when it has a non-whitespace character and the fixed placeholder
\* otherwise, never an empty or whitespace-only text, and hands to the JSON file
\* the diagnostic produced or the default JSON when there is none.
C8_WrittenTextNeverBlank ==
    [][(pc = "persist" /\ pc' = "exit")
          => /\ text' = (IF HasNonSpace(text) THEN text ELSE empty_text)
             /\ HasNonSpace(text')
             /\ json_dump' = (IF json_dump = None THEN default_json ELSE json_dump)
             /\ write_result'.text = "ok" => files'.text = text'
             /\ write_result'.json = "ok" => files'.json = json_dump']_vars

\* C8 witness: a stream of whitespace only ended without error, and the
\* placeholder and the default JSON were written.
C8_Witness ==
    /\ pc = "exit" /\ outcome = "ok"
    /\ ChunkTextInOrder(arrived) # <<>>
    /\ ~HasNonSpace(ChunkTextInOrder(arrived))
    /\ files.text = empty_text
    /\ files.json = default_json

\* C9: two runs that have built their session identifiers have built
\* different ones.
C9_SessionIdsDistinct ==
    \A r1 \in 1..NumRuns, r2 \in 1..NumRuns :
        (r1 # r2 /\ runs[r1].session_id # None /\ runs[r2].session_id # None)
            => runs[r1].session_id # runs[r2].session_id

NonEmptyContext(names) == \E n \in names : Truthy(env[n])

BlockAppended ==
    /\ HasPrefix(prompt, resolved \o <<"\n">> \o RepoHeader)
    /\ Len(prompt) > Len(resolved)

\* C10 as stated: append_repo_context appends the block when any of the eight
\* context variables is present, and returns the prompt unchanged when none is.
C10_BlockWheneverAnyPresent ==
    pc = "ctx_done"
        => /\ NonEmptyContext(CtxNames) => BlockAppended
           /\ ~NonEmptyContext(CtxNames) => prompt = resolved

\* C10 amended: append_repo_context appends the block when one of REPO_OWNER,
\* REPO_NAME, PR_NUMBER, PR_URL, HEAD_REF, BASE_REF, HEAD_SHA is non-empty, or
\* when REPO_FULL contains a "/" with text before or after it; in every other
\* case, also when REPO_FULL alone is set without such a part, it returns the
\* prompt unchanged.
C10_BlockWhenContextDerivable ==
    pc = "ctx_done"
        => LET full == env["REPO_FULL"]
               derivable == /\ full # None
                            /\ \E i \in 1..Len(full) : full[i] = "/"
                            /\ Len(full) > 1
               trigger == NonEmptyContext(CtxNames \ {"REPO_FULL"}) \/ derivable
           IN  /\ trigger => BlockAppended
               /\ ~trigger => prompt = resolved

\* C10 witness: only REPO_FULL is set; with "o/n" the block was appended.
C10_Witness ==
    /\ pc = "ctx_done"
    /\ ~NonEmptyContext(CtxNames \ {"REPO_FULL"})
    /\ env["REPO_FULL"] = <<"o", "/", "n">>
    /\ resolved # <<>>
    /\ BlockAppended

====
